---- MODULE Spec2Model ----
(***************************************************************************)
(* Room synchronization engine of watchium: the rooms and room_members     *)
(* tables, their triggers, the SQL functions of the migrations and the     *)
(* edge-function handlers that call them.                                  *)
(*                                                                         *)
(* Each edge-function request runs in a handler slot (Procs); one step of  *)
(* a handler is one awaited call on the database, which the database       *)
(* executes atomically together with the triggers it fires.  A SQL         *)
(* function called through rpc is one such call.                           *)
(*                                                                         *)
(* Times are whole seconds.  Playback positions are whole milliseconds; a  *)
(* DECIMAL(10,2) column or variable holds a multiple of 10 ms (Round2).    *)
(*                                                                         *)
(* Where a PL/pgSQL variable has the name of a column (is_host in          *)
(* change_playback_state and seek_to_time), SELECT col INTO var is read as *)
(* the column's value assigned to the variable.                            *)
(*                                                                         *)
(* The comments table and the realtime broadcasts are not part of the      *)
(* state: a call that only writes a comment or broadcasts is no step.      *)
(***************************************************************************)
EXTENDS Integers, Sequences, FiniteSets, TLC

Users == {"A", "B", "C"}
RoomIds == {"r1"}
Procs == {"p1", "p2"}

\* Bounds of the model.
MaxRequests == 4
\* The instants of the clock (seconds): at 31, a heartbeat of 31 and one of
\* 29 seconds ago both occur.
Times == {0, 2, 31}
\* Positions a client may send with play, pause or seek (milliseconds).
SeekTimes == {5000}
\* playback_speed: 1.0, in hundredths (DECIMAL(3,2)).
DEFAULT_SPEED == 100
\* An optional request field: <<>> when absent, <<v>> when present.
Undefined == <<>>
Some(v) == <<v>>

\* Program constants (seconds).
MEMBER_TIMEOUT == 30
EMPTY_ROOM_GRACE == 3600
EMPTY_ROOM_BACKDATE == 90000
SYNC_RETENTION == 21600
\* Sync tolerance, "<= 2" seconds, in milliseconds.
TOLERANCE == 2000

VARIABLES rooms, room_members, sync_states, now, nreq, h, sweep,
          response, calc, events

vars == <<rooms, room_members, sync_states, now, nreq, h, sweep,
          response, calc, events>>

----------------------------------------------------------------------------
(* The database: tables as functions from their unique key to the row.     *)

DB(rs, ms, ss) == [rooms |-> rs, room_members |-> ms, sync_states |-> ss]

Abs(x) == IF x < 0 THEN -x ELSE x

\* A value stored in a DECIMAL(10,2) column or variable: rounded to the
\* hundredth of a second, half away from zero.
Round2(x) == IF x >= 0 THEN ((x + 5) \div 10) * 10
                       ELSE -(((-x + 5) \div 10) * 10)

Restrict(f, S) == [k \in S |-> f[k]]

Roster(D, r) == {u \in Users : <<r, u>> \in DOMAIN D.room_members}

Hosts(D, r) == {u \in Roster(D, r) : D.room_members[<<r, u>>].is_host}

\* UPDATE rooms SET last_activity = t WHERE room_id = r
SetActivity(D, r, t) ==
  IF r \in DOMAIN D.rooms
    THEN [D EXCEPT !.rooms[r].last_activity = t]
    ELSE D

\* Oldest with the order reversed (ORDER BY joined_at DESC).
OldestDesc(D, r, S) ==
  {u \in S : \A v \in S :
     D.room_members[<<r, u>>].joined_at >= D.room_members[<<r, v>>].joined_at}

\* The rows ORDER BY joined_at ASC LIMIT 1 may return: any row with the
\* least joined_at.
Oldest(D, r, S) ==
  {u \in S : \A v \in S :
     D.room_members[<<r, u>>].joined_at <= D.room_members[<<r, v>>].joined_at}

\* transfer_host_on_leave without the UPDATE of room_members.
transfer_host_no_flag(D, OLD, t) ==
  IF OLD.is_host
    THEN LET others == Roster(D, OLD.room_id) \ {OLD.user_id}
         IN IF others # {}
              THEN {IF OLD.room_id \in DOMAIN D.rooms
                      THEN [D EXCEPT !.rooms[OLD.room_id].host_user_id = n]
                      ELSE D
                    : n \in Oldest(D, OLD.room_id, others)}
              ELSE {SetActivity(D, OLD.room_id, t - EMPTY_ROOM_BACKDATE)}
    ELSE {D}

\* transfer_host_on_leave without the UPDATE of rooms.
transfer_host_no_room(D, OLD, t) ==
  IF OLD.is_host
    THEN LET others == Roster(D, OLD.room_id) \ {OLD.user_id}
         IN IF others # {}
              THEN {[D EXCEPT !.room_members[<<OLD.room_id, n>>].is_host = TRUE]
                    : n \in Oldest(D, OLD.room_id, others)}
              ELSE {SetActivity(D, OLD.room_id, t - EMPTY_ROOM_BACKDATE)}
    ELSE {D}

\* transfer_host_on_leave without the test of OLD.is_host.
transfer_host_any_leave(D, OLD, t) ==
  LET others == Roster(D, OLD.room_id) \ {OLD.user_id}
  IN IF others # {}
       THEN {LET D1 == [D EXCEPT
                          !.room_members[<<OLD.room_id, n>>].is_host = TRUE]
             IN IF OLD.room_id \in DOMAIN D1.rooms
                  THEN [D1 EXCEPT
                          !.rooms[OLD.room_id].host_user_id = n,
                          !.rooms[OLD.room_id].host_comments = Append(@, n)]
                  ELSE D1
             : n \in Oldest(D, OLD.room_id, others)}
       ELSE {SetActivity(D, OLD.room_id, t - EMPTY_ROOM_BACKDATE)}

\* transfer_host_on_leave without the INSERT INTO comments.
transfer_host_no_comment(D, OLD, t) ==
  IF OLD.is_host
    THEN LET others == Roster(D, OLD.room_id) \ {OLD.user_id}
         IN IF others # {}
              THEN {LET D1 == [D EXCEPT
                                 !.room_members[<<OLD.room_id, n>>].is_host = TRUE]
                    IN IF OLD.room_id \in DOMAIN D1.rooms
                         THEN [D1 EXCEPT !.rooms[OLD.room_id].host_user_id = n]
                         ELSE D1
                    : n \in Oldest(D, OLD.room_id, others)}
              ELSE {SetActivity(D, OLD.room_id, t - EMPTY_ROOM_BACKDATE)}
    ELSE {D}

\* Trigger on_member_leave_transfer_host, AFTER DELETE FOR EACH ROW.
\* OLD = [room_id, user_id, is_host]; D is the table state after the
\* deleting statement.  The set of states the trigger may leave.  The system
\* comment '... became the new host' it inserts is kept with the room, as
\* the new host it names.
transfer_host_on_leave(D, OLD, t) ==
  IF OLD.is_host
    THEN LET others == Roster(D, OLD.room_id) \ {OLD.user_id}
         IN IF others # {}
              THEN {LET D1 == [D EXCEPT
                                 !.room_members[<<OLD.room_id, n>>].is_host = TRUE]
                    IN IF OLD.room_id \in DOMAIN D1.rooms
                         THEN [D1 EXCEPT
                                 !.rooms[OLD.room_id].host_user_id = n,
                                 !.rooms[OLD.room_id].host_comments =
                                   Append(@, n)]
                         ELSE D1
                    : n \in Oldest(D, OLD.room_id, others)}
              ELSE {SetActivity(D, OLD.room_id, t - EMPTY_ROOM_BACKDATE)}
    ELSE {D}

\* The row triggers of one DELETE statement fire one deleted row after the
\* other, in the order the rows were deleted.
RECURSIVE FireLeaveTriggers(_, _, _)
FireLeaveTriggers(D, olds, t) ==
  IF olds = {}
    THEN {D}
    ELSE UNION {UNION {FireLeaveTriggers(D2, olds \ {o}, t)
                       : D2 \in transfer_host_on_leave(D, o, t)} : o \in olds}

\* DELETE FROM room_members WHERE <key in keys>, with its row triggers.
DeleteMembers(D, keys, t) ==
  LET gone == keys \cap DOMAIN D.room_members
      olds == {[room_id |-> k[1], user_id |-> k[2],
                is_host |-> D.room_members[k].is_host] : k \in gone}
      D1 == [D EXCEPT !.room_members =
               Restrict(D.room_members, DOMAIN D.room_members \ gone)]
  IN FireLeaveTriggers(D1, olds, t)

\* Trigger on_member_join_update_activity, AFTER INSERT FOR EACH ROW.
update_room_activity(D, r, t) == SetActivity(D, r, t)

\* The insert without the constraint unique_room_user.
CanInsertMemberAgain(D, r, u) == r \in DOMAIN D.rooms

\* INSERT INTO room_members: fails on the foreign key to rooms and on
\* unique_room_user.
CanInsertMember(D, r, u) ==
  r \in DOMAIN D.rooms /\ <<r, u>> \notin DOMAIN D.room_members

InsertMember(D, r, u, host, pos, t) ==
  LET row == [is_host |-> host, is_synced |-> TRUE,
              current_playback_time |-> pos,
              last_heartbeat |-> t, joined_at |-> t]
      D1 == [D EXCEPT !.room_members =
               [k \in DOMAIN D.room_members \cup {<<r, u>>} |->
                  IF k = <<r, u>> THEN row ELSE D.room_members[k]]]
  IN update_room_activity(D1, r, t)

\* DELETE FROM rooms WHERE room_id = r; room_members rows go with it
\* (ON DELETE CASCADE) and their delete triggers find no room and no member.
DeleteRoom(D, r) ==
  [D EXCEPT !.rooms = Restrict(D.rooms, DOMAIN D.rooms \ {r}),
            !.room_members =
               Restrict(D.room_members,
                        {k \in DOMAIN D.room_members : k[1] # r}),
            !.sync_states = {s \in D.sync_states : s.room_id # r}]

\* The CHECK constraint valid_sync_event_type.
SyncEventTypes == {"heartbeat", "seek", "play_pause", "join", "leave"}

\* INSERT INTO sync_states: the row as stored, and whether the foreign key
\* and the CHECK constraints accept it.
SyncRow(r, u, ht, mt, diff, synced, kind, t) ==
  [room_id |-> r, user_id |-> u, host_time |-> Round2(ht),
   member_time |-> Round2(mt), time_difference |-> Round2(diff),
   is_synced |-> synced, sync_event_type |-> kind, created_at |-> t]

CanInsertSync(D, row) ==
  /\ row.room_id \in DOMAIN D.rooms
  /\ row.host_time >= 0
  /\ row.member_time >= 0
  /\ row.sync_event_type \in SyncEventTypes

InsertSync(D, row) ==
  IF CanInsertSync(D, row)
    THEN [D EXCEPT !.sync_states = @ \cup {row}]
    ELSE D

\* A JavaScript string in a condition: undefined and '' are falsy.
HasKey(key) == key # Undefined /\ key[1] # ""

\* The table without the CHECK constraint.
no_access_key_check(is_public, access_key) == TRUE

\* The CHECK constraint valid_access_key of rooms.
valid_access_key(is_public, access_key) ==
  \/ is_public
  \/ /\ ~is_public
     /\ access_key # Undefined
     /\ Len(access_key[1]) = 6

\* access_key VARCHAR(6): a longer value is an error.
FitsAccessKey(access_key) ==
  access_key = Undefined \/ Len(access_key[1]) <= 6

\* check_room_access that asks for no key.
check_room_access_open(D, r, p_access_key) == r \in DOMAIN D.rooms

\* check_room_access.  Without a row room_exists and is_public stay NULL,
\* neither IF is taken and the last comparison is false or NULL, which
\* validateRoomAccess turns into false.
check_room_access(D, r, p_access_key) ==
  IF r \notin DOMAIN D.rooms
    THEN FALSE
    ELSE IF D.rooms[r].is_public
      THEN TRUE
      ELSE /\ p_access_key # Undefined
           /\ D.rooms[r].access_key # Undefined
           /\ p_access_key = D.rooms[r].access_key

\* What a supabase.rpc call of a checking function can come to: data, an
\* error in the result, or a rejected promise.
RpcOutcomes == {"ok", "error", "throw"}

\* validateRoomAccess: the rpc's data (false when it is null); an error is
\* thrown, and the catch block returns false.
validateRoomAccess(outcome, D, r, access_key) ==
  IF outcome = "ok" THEN check_room_access(D, r, access_key) ELSE FALSE

----------------------------------------------------------------------------
(* Handler slots.                                                          *)

Idle == [pc |-> "idle", op |-> "none", room_id |-> "r1", user_id |-> "A",
         action |-> "none", current_time |-> Undefined,
         is_host |-> FALSE, position |-> 0, data |-> FALSE,
         authorized |-> FALSE, wrote |-> FALSE, is_synced |-> Undefined,
         rpc |-> "none", event |-> 0,
         is_public |-> TRUE, access_key |-> Undefined]

SweepIdle == [pc |-> "idle", pending |-> {}]

\* response is the HTTP response the step just taken has sent, NoResponse
\* after a step that sent none.
NoResponse == [op |-> "none", room_id |-> "r1", user_id |-> "A",
               status |-> "none", error |-> "none", authorized |-> FALSE,
               position |-> Undefined]

\* The response of handler p, the log of notifications becoming ev.
RespondLog(p, status, error, ev) ==
  /\ response' = [op |-> h[p].op, room_id |-> h[p].room_id,
                  user_id |-> h[p].user_id, status |-> status,
                  error |-> error, authorized |-> h[p].authorized,
                  position |-> IF h[p].op = "status"
                                 THEN h[p].current_time
                                 ELSE Undefined]
  /\ h' = [h EXCEPT ![p] = Idle]
  /\ nreq' = IF h[p].wrote THEN nreq ELSE nreq - 1
  /\ calc' = calc
  /\ events' = ev

Respond(p, status, error) == RespondLog(p, status, error, events)

\* A step of handler p that writes to the database.
Wrote(p, pc) == h' = [h EXCEPT ![p].pc = pc, ![p].wrote = TRUE]

\* A step that sends no response, the log of notifications becoming ev.
SilentLog(ev) ==
  response' = NoResponse /\ nreq' = nreq /\ calc' = calc /\ events' = ev

Silent == SilentLog(events)

SetDB(D) ==
  /\ rooms' = D.rooms
  /\ room_members' = D.room_members
  /\ sync_states' = D.sync_states

Cur == DB(rooms, room_members, sync_states)

tables == <<rooms, room_members, sync_states>>

Start(p, op, r, u, action, ct) ==
  /\ h[p].pc = "idle"
  /\ nreq < MaxRequests
  /\ nreq' = nreq + 1
  /\ h' = [h EXCEPT ![p] = [Idle EXCEPT !.pc = op, !.op = op, !.room_id = r,
                            !.user_id = u, !.action = action,
                            !.current_time = ct]]
  /\ response' = NoResponse
  /\ UNCHANGED <<tables, now, sweep, calc, events>>

Goto(p, pc) == h' = [h EXCEPT ![p].pc = pc]

\* calc is the last sync classification computed: the place that computed
\* it, the host and member positions it was given, the difference and the
\* flag it reported.
NoCalc == [site |-> "none", host |-> 0, member |-> 0, diff |-> 0,
           synced |-> FALSE]

InitEngine ==
  /\ rooms = <<>>
  /\ room_members = <<>>
  /\ sync_states = {}
  /\ sweep = SweepIdle
  /\ now = 0
  /\ nreq = 0
  /\ h = [p \in Procs |-> Idle]
  /\ response = NoResponse

\* events is the log of one room's notifications: committed lists the
\* mutations the join, leave and delete handlers make to the roster and the
\* room, in the order of their commits; emitted lists the broadcastToRoom
\* calls in the order they are made.  An entry is [id, type, user_id]: the
\* mutation of a request and the notification that announces it bear the
\* same id, and a notification that announces no mutation bears 0.  The log
\* is kept only where on is set.
NoEvents == [on |-> FALSE, next |-> 1, committed |-> <<>>, emitted |-> <<>>]

Recording == [NoEvents EXCEPT !.on = TRUE]

\* The id of the next mutation or notification of a request that has none
\* yet.
NewEvent == IF events.on THEN events.next ELSE 0

\* The log after the commit of a mutation with id n.
Committed(n, type, u) ==
  IF events.on
    THEN [events EXCEPT !.next = IF n = @ THEN @ + 1 ELSE @,
                        !.committed = Append(@, [id |-> n, type |-> type,
                                                 user_id |-> u])]
    ELSE events

\* broadcastToRoom: the log after the call, for the mutation with id n.
broadcastToRoom(n, type, u) ==
  IF events.on
    THEN [events EXCEPT !.next = IF n = @ THEN @ + 1 ELSE @,
                        !.emitted = Append(@, [id |-> n, type |-> type,
                                               user_id |-> u])]
    ELSE events

Init == InitEngine /\ calc = NoCalc /\ events = NoEvents

\* Time passes, up to an instant of T.
TickWithin(T) ==
  /\ \E t \in T : t > now /\ now' = t
  /\ Silent
  /\ UNCHANGED <<tables, nreq, h, sweep>>

Tick == TickWithin(Times)

----------------------------------------------------------------------------
(* rooms-create                                                            *)

\* generateAccessKey: six digits, 100000 to 999999.
GeneratedKeys == {"100000", "999999"}

\* A create request of a user of U with is_public of Pub and access_key of
\* Keys; generateRoomId returns an id no room has.
CreateRoomWith(p, U, Pub, Keys) ==
  \E r \in RoomIds, u \in U, is_public \in Pub, access_key \in Keys :
    /\ r \notin DOMAIN rooms
    /\ h[p].pc = "idle"
    /\ nreq < MaxRequests
    /\ nreq' = nreq + 1
    /\ h' = [h EXCEPT ![p] = [Idle EXCEPT !.pc = "create", !.op = "create",
                                          !.room_id = r, !.user_id = u,
                                          !.is_public = is_public,
                                          !.access_key = access_key]]
    /\ response' = NoResponse
    /\ UNCHANGED <<tables, now, sweep, calc, events>>

\* A create request for a public room without access_key.
CreateRoomFrom(p, U) == CreateRoomWith(p, U, {TRUE}, {Undefined})

\* let accessKey = roomData.access_key; if (!roomData.is_public &&
\* !accessKey) accessKey = generateAccessKey().
AccessKeys(is_public, access_key) ==
  IF ~is_public /\ ~HasKey(access_key)
    THEN {Some(g) : g \in GeneratedKeys}
    ELSE {access_key}

CreateRoomStart(p) == CreateRoomFrom(p, Users)

\* INSERT INTO rooms; unique_room_id fails it when the id was taken
\* meanwhile, and so do an access_key too long and valid_access_key.
CreateRoomInsertRoom(p) ==
  /\ h[p].pc = "create"
  /\ \E accessKey \in AccessKeys(h[p].is_public, h[p].access_key) :
     LET r == h[p].room_id IN
       IF \/ r \in DOMAIN rooms
          \/ ~FitsAccessKey(accessKey)
          \/ ~valid_access_key(h[p].is_public, accessKey)
         THEN /\ Respond(p, "error", "create_room_failed")
              /\ UNCHANGED tables
         ELSE /\ rooms' = [k \in DOMAIN rooms \cup {r} |->
                             IF k = r
                               THEN [host_user_id |-> h[p].user_id,
                                     current_playback_time |-> 0,
                                     is_playing |-> FALSE,
                                     playback_speed |-> DEFAULT_SPEED,
                                     host_comments |-> <<>>,
                                     last_activity |-> now,
                                     is_public |-> h[p].is_public,
                                     access_key |-> accessKey]
                               ELSE rooms[k]]
              /\ Wrote(p, "create_member")
              /\ UNCHANGED <<room_members, sync_states>>
              /\ Silent
  /\ UNCHANGED <<now, sweep>>

\* INSERT INTO room_members the host, is_host: true.
CreateRoomInsertHost(p) ==
  /\ h[p].pc = "create_member"
  /\ LET r == h[p].room_id
         u == h[p].user_id
     IN IF CanInsertMember(Cur, r, u)
          THEN /\ SetDB(InsertMember(Cur, r, u, TRUE, 0, now))
               /\ Respond(p, "success", "none")
          ELSE /\ Respond(p, "error", "create_room_failed")
               /\ UNCHANGED tables
  /\ UNCHANGED <<now, sweep>>

----------------------------------------------------------------------------
(* rooms-join                                                              *)

\* A join request of a user of U with access_key of Keys.
JoinWith(p, U, Keys) ==
  \E r \in RoomIds, u \in U, access_key \in Keys :
    /\ h[p].pc = "idle"
    /\ nreq < MaxRequests
    /\ nreq' = nreq + 1
    /\ h' = [h EXCEPT ![p] = [Idle EXCEPT !.pc = "join", !.op = "join",
                                          !.room_id = r, !.user_id = u,
                                          !.access_key = access_key]]
    /\ response' = NoResponse
    /\ UNCHANGED <<tables, now, sweep, calc, events>>

\* A join request without access_key.
JoinFrom(p, U) == JoinWith(p, U, {Undefined})

JoinStart(p) == JoinFrom(p, Users)

\* Validate room access, the rpc coming to one of the outcomes O; h[p].rpc
\* keeps the outcome.
JoinAccessWith(p, O) ==
  /\ h[p].pc = "join"
  /\ \E o \in O :
       IF validateRoomAccess(o, Cur, h[p].room_id, h[p].access_key)
         THEN /\ h' = [h EXCEPT ![p].pc = "join_existing", ![p].rpc = o]
              /\ Silent
         ELSE Respond(p, "error", "access_denied")
  /\ UNCHANGED <<tables, now, sweep>>

\* The access check while the database answers.
JoinAccess(p) == JoinAccessWith(p, {"ok"})

\* The access check while the rpc may fail.
JoinAccessFaulty(p) == JoinAccessWith(p, RpcOutcomes)

\* Check if user is already in the room.
JoinExisting(p) ==
  /\ h[p].pc = "join_existing"
  /\ IF <<h[p].room_id, h[p].user_id>> \in DOMAIN room_members
       THEN Respond(p, "error", "already_joined")
       ELSE Goto(p, "join_room") /\ Silent
  /\ UNCHANGED <<tables, now, sweep>>

\* Get room details.
JoinRoom(p) ==
  /\ h[p].pc = "join_room"
  /\ IF h[p].room_id \in DOMAIN rooms
       THEN /\ h' = [h EXCEPT ![p].pc = "join_insert",
                              ![p].position =
                                 rooms[h[p].room_id].current_playback_time]
            /\ Silent
       ELSE Respond(p, "error", "room_not_found")
  /\ UNCHANGED <<tables, now, sweep>>

\* is_host of the row the join handler inserts: false.
JoinerIsHost == FALSE

\* Add user to room: is_host: false, is_synced: true.
JoinInsert(p) ==
  /\ h[p].pc = "join_insert"
  /\ LET r == h[p].room_id
         u == h[p].user_id
     IN IF CanInsertMember(Cur, r, u)
          THEN /\ SetDB(InsertMember(Cur, r, u, JoinerIsHost, h[p].position,
                                     now))
               /\ h' = [h EXCEPT ![p].pc = "join_sync", ![p].wrote = TRUE,
                                 ![p].event = NewEvent]
               /\ SilentLog(Committed(NewEvent, "member_joined", u))
          ELSE /\ Respond(p, "error", "join_room_failed")
               /\ UNCHANGED tables
  /\ UNCHANGED <<now, sweep>>

\* Create sync state record for join event, broadcast member joined event,
\* then the success response.
JoinSync(p) ==
  /\ h[p].pc = "join_sync"
  /\ SetDB(InsertSync(Cur, SyncRow(h[p].room_id, h[p].user_id, h[p].position,
                                   h[p].position, 0, TRUE, "join", now)))
  /\ RespondLog(p, "success", "none",
                broadcastToRoom(h[p].event, "member_joined", h[p].user_id))
  /\ UNCHANGED <<now, sweep>>

----------------------------------------------------------------------------
(* rooms-leave                                                             *)

\* A leave request of a user of U.
LeaveFrom(p, U) ==
  \E r \in RoomIds, u \in U : Start(p, "leave", r, u, "none", Undefined)

LeaveStart(p) == LeaveFrom(p, Users)

\* Get member details before deletion.
LeaveMember(p) ==
  /\ h[p].pc = "leave"
  /\ LET k == <<h[p].room_id, h[p].user_id>>
     IN IF k \in DOMAIN room_members
          THEN /\ h' = [h EXCEPT ![p].pc = "leave_sync",
                                 ![p].is_host = room_members[k].is_host]
               /\ Silent
          ELSE Respond(p, "error", "not_in_room")
  /\ UNCHANGED <<tables, now, sweep>>

\* Create sync state record for leave event.
LeaveSync(p) ==
  /\ h[p].pc = "leave_sync"
  /\ SetDB(InsertSync(Cur, SyncRow(h[p].room_id, h[p].user_id, 0, 0, 0, TRUE,
                                   "leave", now)))
  /\ Wrote(p, "leave_delete")
  /\ Silent
  /\ UNCHANGED <<now, sweep>>

\* Remove user from room (this will trigger host transfer if needed); a
\* delete that matches no row is no error.
LeaveDelete(p) ==
  /\ h[p].pc = "leave_delete"
  /\ \E D \in DeleteMembers(Cur, {<<h[p].room_id, h[p].user_id>>}, now) :
       SetDB(D)
  /\ IF <<h[p].room_id, h[p].user_id>> \in DOMAIN room_members
       THEN /\ h' = [h EXCEPT ![p].pc = "leave_remaining", ![p].wrote = TRUE,
                              ![p].event = NewEvent]
            /\ SilentLog(Committed(NewEvent, "member_left", h[p].user_id))
       ELSE /\ Wrote(p, "leave_remaining")
            /\ Silent
  /\ UNCHANGED <<now, sweep>>

\* Broadcast member left event, then check if room is now empty.
LeaveRemaining(p) ==
  /\ h[p].pc = "leave_remaining"
  /\ LET ev == broadcastToRoom(h[p].event, "member_left", h[p].user_id)
     IN IF Roster(Cur, h[p].room_id) = {}
          THEN Goto(p, "leave_mark") /\ SilentLog(ev)
          ELSE RespondLog(p, "success", "none", ev)
  /\ UNCHANGED <<tables, now, sweep>>

\* The mark with a factor of 60 missing: 25 minutes ago.
EmptyRoomMarkMinutes(t) == t - 25 * 60

\* new Date(Date.now() - 25 * 60 * 60 * 1000): 25 hours ago.
EmptyRoomMark(t) == t - 25 * 60 * 60

\* The room is now empty: mark it for cleanup, then the success response.
LeaveMark(p) ==
  /\ h[p].pc = "leave_mark"
  /\ SetDB(SetActivity(Cur, h[p].room_id, EmptyRoomMark(now)))
  /\ Respond(p, "success", "none")
  /\ UNCHANGED <<now, sweep>>

----------------------------------------------------------------------------
(* rooms-delete                                                            *)

DeleteStart(p) ==
  \E r \in RoomIds, u \in Users : Start(p, "delete", r, u, "none", Undefined)

\* Get room details and verify user is host.
DeleteCheck(p) ==
  /\ h[p].pc = "delete"
  /\ LET r == h[p].room_id
     IN IF r \notin DOMAIN rooms
          THEN Respond(p, "error", "room_not_found")
          ELSE IF rooms[r].host_user_id # h[p].user_id
                 THEN Respond(p, "error", "not_host")
                 ELSE /\ h' = [h EXCEPT ![p].pc = "delete_members",
                                        ![p].event = NewEvent]
                      /\ SilentLog(broadcastToRoom(NewEvent, "room_deleted",
                                                   h[p].user_id))
  /\ UNCHANGED <<tables, now, sweep>>

\* Delete all room members.
DeleteRoomMembers(p) ==
  /\ h[p].pc = "delete_members"
  /\ \E D \in DeleteMembers(Cur, {h[p].room_id} \X Users, now) : SetDB(D)
  /\ Wrote(p, "delete_room")
  /\ Silent
  /\ UNCHANGED <<now, sweep>>

\* Delete the room.
DeleteRoomRow(p) ==
  /\ h[p].pc = "delete_room"
  /\ SetDB(DeleteRoom(Cur, h[p].room_id))
  /\ RespondLog(p, "success", "none",
                IF h[p].room_id \in DOMAIN rooms
                  THEN Committed(h[p].event, "room_deleted", h[p].user_id)
                  ELSE events)
  /\ UNCHANGED <<now, sweep>>

----------------------------------------------------------------------------
(* sync-control and the SQL functions behind it                            *)

\* check_rate_limit: fewer than p_max_requests rows of the user and action
\* in the window of p_window_minutes.
check_rate_limit(D, u, action, window_minutes, max_requests, t) ==
  Cardinality({s \in D.sync_states :
                 /\ s.user_id = u
                 /\ s.sync_event_type = action
                 /\ s.created_at > t - 60 * window_minutes}) < max_requests

\* checkRateLimit with a catch block that denies.
checkRateLimitClosed(outcome, D, u, action, window_minutes, max_requests, t) ==
  IF outcome = "ok"
    THEN check_rate_limit(D, u, action, window_minutes, max_requests, t)
    ELSE FALSE

\* checkRateLimit: the rpc's data (false when it is null); an error is
\* thrown, and the catch block returns true.
checkRateLimit(outcome, D, u, action, window_minutes, max_requests, t) ==
  IF outcome = "ok"
    THEN check_rate_limit(D, u, action, window_minutes, max_requests, t)
    ELSE TRUE

\* bulk_sync_update: one sync_states row per member, then the room's
\* last_activity.
RECURSIVE InsertSyncAll(_, _)
InsertSyncAll(D, rows) ==
  IF rows = {}
    THEN D
    ELSE LET row == CHOOSE x \in rows : TRUE
         IN InsertSyncAll(InsertSync(D, row), rows \ {row})

\* The row bulk_sync_update inserts for one member. p_host_time is the
\* caller's value as passed; member_time is the member's stored position.
bulk_sync_row(r, u, p_host_time, member_time, kind, t) ==
  SyncRow(r, u, p_host_time, member_time, Abs(p_host_time - member_time),
          Abs(p_host_time - member_time) <= TOLERANCE, kind, t)

\* bulk_sync_update without the UPDATE of rooms.
bulk_sync_update_no_activity(D, r, host_time, kind, t) ==
  InsertSyncAll(D, {bulk_sync_row(r, u, host_time,
                                  D.room_members[<<r, u>>].current_playback_time,
                                  kind, t)
                    : u \in Roster(D, r)})

bulk_sync_update(D, r, host_time, kind, t) ==
  LET rows == {bulk_sync_row(r, u, host_time,
                             D.room_members[<<r, u>>].current_playback_time,
                             kind, t)
               : u \in Roster(D, r)}
  IN SetActivity(InsertSyncAll(D, rows), r, t)

\* The check with NOT is_host left out.
IsMember(D, r, u) == <<r, u>> \in DOMAIN D.room_members

\* Verify user is host: IF NOT FOUND OR NOT is_host THEN RETURN FALSE.
IsHostMember(D, r, u) ==
  /\ <<r, u>> \in DOMAIN D.room_members
  /\ D.room_members[<<r, u>>].is_host

\* The UPDATE without AND user_id != u.
MarkAllUnsynced(D, r, u) ==
  [D EXCEPT !.room_members =
     [k \in DOMAIN D.room_members |->
        IF k[1] = r
          THEN [D.room_members[k] EXCEPT !.is_synced = FALSE]
          ELSE D.room_members[k]]]

\* UPDATE room_members SET is_synced = false WHERE room_id = r AND
\* user_id != u.
MarkOthersUnsynced(D, r, u) ==
  [D EXCEPT !.room_members =
     [k \in DOMAIN D.room_members |->
        IF k[1] = r /\ k[2] # u
          THEN [D.room_members[k] EXCEPT !.is_synced = FALSE]
          ELSE D.room_members[k]]]

\* The CHECK constraint valid_current_playback_time of rooms, on the value
\* the column is to hold.
valid_current_playback_time(pos) == pos >= 0

\* change_playback_state: [data: the boolean returned, db: the state left].
\* The UPDATE of rooms raises an error when the CHECK constraint fails: the
\* rpc then returns no data and leaves the database as it was.
change_playback_state(D, r, u, playing, ct, t) ==
  IF ~IsHostMember(D, r, u)
    THEN [data |-> FALSE, db |-> D]
    ELSE LET pos == IF ct = Undefined
                      THEN D.rooms[r].current_playback_time
                      ELSE Round2(ct[1])
             D1 == [D EXCEPT !.rooms[r].is_playing = playing,
                             !.rooms[r].current_playback_time = pos]
             D2 == bulk_sync_update(D1, r, pos, "play_pause", t)
         IN IF ~valid_current_playback_time(pos)
              THEN [data |-> FALSE, db |-> D]
              ELSE [data |-> TRUE, db |-> MarkOthersUnsynced(D2, r, u)]

\* seek_to_time.
seek_to_time(D, r, u, ct, t) ==
  IF ct < 0
    THEN [data |-> FALSE, db |-> D]
    ELSE IF ~IsHostMember(D, r, u)
      THEN [data |-> FALSE, db |-> D]
      ELSE LET D1 == [D EXCEPT !.rooms[r].current_playback_time = Round2(ct)]
               D2 == bulk_sync_update(D1, r, ct, "seek", t)
           IN [data |-> TRUE, db |-> MarkOthersUnsynced(D2, r, u)]

\* A JavaScript value in a condition: what supabase.rpc resolves to is the
\* object {data, error}, and an object is truthy whatever its fields.
Truthy(result) == TRUE

\* A play, pause or seek request of a user of U with no position or with
\* one of T.
SyncWith(p, U, T) ==
  \E r \in RoomIds, u \in U, a \in {"play", "pause", "seek"},
     ct \in {Undefined} \cup {Some(x) : x \in T} :
    Start(p, "sync", r, u, a, ct)

SyncFrom(p, U) == SyncWith(p, U, SeekTimes)

SyncStart(p) == SyncFrom(p, Users)

\* Rate limiting check: checkRateLimit(user_id, 'sync_control', 1, 2), the
\* rpc coming to one of the outcomes O; h[p].rpc keeps the outcome.
SyncRateLimitWith(p, O) ==
  /\ h[p].pc = "sync"
  /\ \E o \in O :
       IF ~checkRateLimit(o, Cur, h[p].user_id, "sync_control", 1, 2, now)
         THEN Respond(p, "error", "rate_limited")
         ELSE IF h[p].action = "seek" /\ h[p].current_time = Undefined
                THEN Respond(p, "error", "missing_time")
                ELSE /\ h' = [h EXCEPT ![p].pc = "sync_rpc", ![p].rpc = o]
                     /\ Silent
  /\ UNCHANGED <<tables, now, sweep>>

\* The rate limiting check while the database answers.
SyncRateLimit(p) == SyncRateLimitWith(p, {"ok"})

\* The rate limiting check while the rpc may fail.
SyncRateLimitFaulty(p) == SyncRateLimitWith(p, RpcOutcomes)

\* success = await supabase.rpc(...), then if (!success) the sync_failed
\* error, else the success response.
SyncRpc(p) ==
  /\ h[p].pc = "sync_rpc"
  /\ LET r == h[p].room_id
         u == h[p].user_id
         res == IF h[p].action = "seek"
                  THEN seek_to_time(Cur, r, u, h[p].current_time[1], now)
                  ELSE change_playback_state(Cur, r, u, h[p].action = "play",
                                             h[p].current_time, now)
         success == [data |-> res.data, error |-> "none"]
     IN /\ SetDB(res.db)
        /\ h' = [h EXCEPT ![p].pc = "sync_respond",
                          ![p].data = Truthy(success),
                          ![p].authorized = IsHostMember(Cur, r, u),
                          ![p].wrote = res.data]
  /\ Silent
  /\ UNCHANGED <<now, sweep>>

SyncRespond(p) ==
  /\ h[p].pc = "sync_respond"
  /\ IF ~h[p].data
       THEN Respond(p, "error", "sync_failed")
       ELSE Respond(p, "success", "none")
  /\ UNCHANGED <<tables, now, sweep>>

----------------------------------------------------------------------------
(* Eviction sweeps                                                         *)

\* Stale with a timeout of 20 seconds.
StaleEarly(D, t) ==
  {k \in DOMAIN D.room_members : D.room_members[k].last_heartbeat < t - 20}

\* The members with no heartbeat for 30 seconds:
\* last_heartbeat < NOW() - INTERVAL '30 seconds'.
Stale(D, t) ==
  {k \in DOMAIN D.room_members :
     D.room_members[k].last_heartbeat < t - MEMBER_TIMEOUT}

\* cleanup_realtime_data.
cleanup_realtime_data(D, t) ==
  {LET D2 == [D1 EXCEPT !.sync_states =
                {s \in @ : ~(s.created_at < t - SYNC_RETENTION)}]
       empty == {r \in DOMAIN D2.rooms :
                   /\ Roster(D2, r) = {}
                   /\ D2.rooms[r].last_activity < t - EMPTY_ROOM_GRACE}
   IN [D2 EXCEPT !.rooms = Restrict(@, DOMAIN @ \ empty),
                 !.sync_states = {s \in @ : s.room_id \notin empty}]
   : D1 \in DeleteMembers(D, Stale(D, t), t)}

CleanupRealtimeData ==
  /\ \E D \in cleanup_realtime_data(Cur, now) : SetDB(D)
  /\ Silent
  /\ UNCHANGED <<now, nreq, h, sweep>>

\* cleanupInactiveMembers: select the inactive members ...
CleanupSelect ==
  /\ sweep.pc = "idle"
  /\ Stale(Cur, now) # {}
  /\ sweep' = [pc |-> "delete", pending |-> Stale(Cur, now)]
  /\ Silent
  /\ UNCHANGED <<tables, now, nreq, h>>

\* ... and delete them one by one.
CleanupDelete ==
  /\ sweep.pc = "delete"
  /\ \E k \in sweep.pending :
       /\ \E D \in DeleteMembers(Cur, {k}, now) : SetDB(D)
       /\ sweep' = IF sweep.pending = {k}
                     THEN SweepIdle
                     ELSE [sweep EXCEPT !.pending = @ \ {k}]
  /\ Silent
  /\ UNCHANGED <<now, nreq, h>>

----------------------------------------------------------------------------

Membership(p) ==
  \/ CreateRoomStart(p)
  \/ CreateRoomInsertRoom(p)
  \/ CreateRoomInsertHost(p)
  \/ JoinStart(p)
  \/ JoinAccess(p)
  \/ JoinExisting(p)
  \/ JoinRoom(p)
  \/ JoinInsert(p)
  \/ JoinSync(p)
  \/ LeaveStart(p)
  \/ LeaveMember(p)
  \/ LeaveSync(p)
  \/ LeaveDelete(p)
  \/ LeaveRemaining(p)
  \/ LeaveMark(p)

RoomDeletion(p) ==
  \/ DeleteStart(p)
  \/ DeleteCheck(p)
  \/ DeleteRoomMembers(p)
  \/ DeleteRoomRow(p)

Playback(p) ==
  \/ SyncStart(p)
  \/ SyncRateLimit(p)
  \/ SyncRpc(p)
  \/ SyncRespond(p)

Sweeps ==
  \/ CleanupRealtimeData
  \/ CleanupSelect
  \/ CleanupDelete

\* Rooms, rosters and eviction.
Next ==
  \/ Tick
  \/ Sweeps
  \/ \E p \in {"p1"} : Membership(p) \/ RoomDeletion(p)

Spec == Init /\ [][Next]_vars

\* Rosters and playback commands.
NextPlay ==
  \E p \in Procs : Membership(p) \/ Playback(p)

SpecPlay == Init /\ [][NextPlay]_vars

----------------------------------------------------------------------------
(* Sync classification                                                     *)

\* Positions in milliseconds; 2004 and 2005 are not multiples of 0.01 s.
Positions == {0, 10, 1990, 2000, 2004, 2005, 2010, 4004}

\* The positions a DECIMAL(10,2) column holds.
Stored == {x \in Positions : Round2(x) = x}

\* createSyncState: the row inserted into sync_states.
createSyncState(r, u, host_time, member_time, kind, t) ==
  LET time_difference == Abs(host_time - member_time)
      is_synced == time_difference <= TOLERANCE
  IN SyncRow(r, u, host_time, member_time, time_difference, is_synced,
             kind, t)

\* track_user_presence: time_diff is a DECIMAL(10,2) variable, the
\* assignment rounds; the row inserted into sync_states.
track_user_presence_row(r, u, room_time, p_current_time, t) ==
  LET time_diff == Round2(Abs(room_time - p_current_time))
      is_synced == time_diff <= TOLERANCE
  IN SyncRow(r, u, room_time, p_current_time, time_diff, is_synced,
             "heartbeat", t)

\* get-host-time: user_sync_status of the response.
user_sync_status(room_time, member_time) ==
  LET timeDifference == Abs(room_time - member_time)
      isSynced == timeDifference <= TOLERANCE
  IN [is_synced |-> isSynced, time_difference |-> timeDifference,
      user_current_time |-> member_time]

\* Member list: sync_status of one member.
sync_status(room_time, member_time) ==
  LET timeDifference == Abs(room_time - member_time)
      isSynced == timeDifference <= TOLERANCE
  IN [is_synced |-> isSynced, time_difference |-> timeDifference,
      host_time |-> room_time, member_time |-> member_time]

Report(site, row) ==
  /\ calc' = [calc EXCEPT !.site = site, !.diff = row.time_difference,
                          !.synced = row.is_synced]
  /\ UNCHANGED <<tables, now, nreq, h, sweep, response, events>>

\* Both positions are the caller's numbers.
CalcCreateSyncState ==
  Report("createSyncState",
         createSyncState("r1", "A", calc.host, calc.member, "sync", now))

\* seek_to_time passes the caller's position; the member's is stored.
CalcBulkSyncUpdate ==
  /\ calc.member \in Stored
  /\ Report("bulk_sync_update",
            bulk_sync_row("r1", "A", calc.host, calc.member, "seek", now))

\* The room's position is stored; the member's is the caller's number.
CalcTrackUserPresence ==
  /\ calc.host \in Stored
  /\ Report("track_user_presence",
            track_user_presence_row("r1", "A", calc.host, calc.member, now))

\* Both positions are stored.
CalcGetHostTime ==
  /\ calc.host \in Stored /\ calc.member \in Stored
  /\ Report("get-host-time", user_sync_status(calc.host, calc.member))

CalcMemberList ==
  /\ calc.host \in Stored /\ calc.member \in Stored
  /\ Report("member list", sync_status(calc.host, calc.member))

InitSync ==
  /\ InitEngine
  /\ \E x \in Positions, y \in Positions :
       calc = [NoCalc EXCEPT !.host = x, !.member = y]
  /\ events = NoEvents

NextSync ==
  \/ CalcCreateSyncState
  \/ CalcBulkSyncUpdate
  \/ CalcTrackUserPresence
  \/ CalcGetHostTime
  \/ CalcMemberList

SpecSync == InitSync /\ [][NextSync]_vars

----------------------------------------------------------------------------
(* Heartbeats                                                              *)

\* The instants of heartbeats.  NOW() has microsecond resolution: the
\* transaction of a heartbeat starts later than every timestamp stored.
BeatTimes == {1, 2}
\* The creator, the joiner and the users that send heartbeats.
Creators == {"A"}
Joiners == {"B"}
BeatUsers == {"A", "B"}

\* Positions a heartbeat may report (milliseconds).
BeatPositions == {0, 5000}

\* The WHEN condition of the trigger on_member_presence_update.
presence_changed(OLD, New) ==
  \/ OLD.current_playback_time # New.current_playback_time
  \/ OLD.last_heartbeat # New.last_heartbeat

\* update_member_presence: the row stored in place of NEW.
update_member_presence(D, r, New, t) ==
  [New EXCEPT !.last_heartbeat = t,
              !.current_playback_time = D.rooms[r].current_playback_time,
              !.is_synced = D.rooms[r].is_playing]

\* UPDATE room_members SET ... WHERE room_id = r AND user_id = u, with the
\* BEFORE UPDATE trigger; no row, no update.
UpdateMember(D, r, u, New, t) ==
  IF <<r, u>> \notin DOMAIN D.room_members
    THEN D
    ELSE LET OLD == D.room_members[<<r, u>>]
             row == IF presence_changed(OLD, New)
                      THEN update_member_presence(D, r, New, t)
                      ELSE New
         IN [D EXCEPT !.room_members[<<r, u>>] = row]

\* A heartbeat that moves the stored position half way towards the reported
\* one instead of replacing it.
track_user_presence_smoothed(D, r, u, p_current_time, p_is_playing, t) ==
  IF r \notin DOMAIN D.rooms \/ <<r, u>> \notin DOMAIN D.room_members
    THEN D
    ELSE LET OLD == D.room_members[<<r, u>>]
             mid == (OLD.current_playback_time + p_current_time) \div 2
         IN [D EXCEPT !.room_members[<<r, u>>] =
               [OLD EXCEPT !.current_playback_time = Round2(mid),
                           !.last_heartbeat = t]]

\* A heartbeat that also stores the reported playing flag in the room.
track_user_presence_playing(D, r, u, p_current_time, p_is_playing, t) ==
  IF r \notin DOMAIN D.rooms \/ <<r, u>> \notin DOMAIN D.room_members
    THEN D
    ELSE [D EXCEPT !.rooms[r].is_playing = p_is_playing,
                   !.room_members[<<r, u>>].last_heartbeat = t]

\* track_user_presence.  In SET is_synced = is_synced the right-hand side is
\* read as the variable.  p_is_playing is not used.  An INSERT INTO
\* sync_states that a constraint refuses raises an error, which undoes the
\* UPDATE as well.
track_user_presence(D, r, u, p_current_time, p_is_playing, t) ==
  IF r \notin DOMAIN D.rooms
    THEN D
    ELSE LET room_time == D.rooms[r].current_playback_time
             row == track_user_presence_row(r, u, room_time, p_current_time, t)
             D1 == IF <<r, u>> \in DOMAIN D.room_members
                     THEN LET OLD == D.room_members[<<r, u>>]
                          IN UpdateMember(D, r, u,
                               [OLD EXCEPT !.current_playback_time =
                                              Round2(p_current_time),
                                           !.is_synced = row.is_synced,
                                           !.last_heartbeat = t], t)
                     ELSE D
         IN IF CanInsertSync(D1, row) THEN InsertSync(D1, row) ELSE D

\* A client calls track_user_presence through rpc; it returns void.  A
\* heartbeat of a user of U that reports a position of P at an instant of T.
HeartbeatWithin(U, P, T) ==
  \E r \in RoomIds, u \in U, pos \in P,
     playing \in BOOLEAN, t \in T :
    /\ t > now
    /\ now' = t
    /\ SetDB(track_user_presence(Cur, r, u, pos, playing, t))
    /\ response' = [op |-> "heartbeat", room_id |-> r, user_id |-> u,
                    status |-> "success", error |-> "none",
                    authorized |-> FALSE, position |-> Some(pos)]
    /\ UNCHANGED <<nreq, h, sweep, calc, events>>

HeartbeatFrom(U, P) == HeartbeatWithin(U, P, BeatTimes)

Heartbeat == HeartbeatFrom(BeatUsers, BeatPositions)

\* members-update-status: a request of a user of U with
\* updates.current_playback_time (a position of P), updates.is_synced or
\* both.
StatusWith(p, U, P) ==
  \E r \in RoomIds, u \in U,
     ct \in {Undefined} \cup {Some(x) : x \in P},
     flag \in {Undefined, Some(TRUE), Some(FALSE)} :
    /\ ct # Undefined \/ flag # Undefined
    /\ h[p].pc = "idle"
    /\ nreq < MaxRequests
    /\ nreq' = nreq + 1
    /\ h' = [h EXCEPT ![p] = [Idle EXCEPT !.pc = "status", !.op = "status",
                                          !.room_id = r, !.user_id = u,
                                          !.current_time = ct,
                                          !.is_synced = flag]]
    /\ response' = NoResponse
    /\ UNCHANGED <<tables, now, sweep, calc, events>>

StatusFrom(p, U) == StatusWith(p, U, BeatPositions)

\* The keys of updates the handler accepts.
allowedUpdates ==
  {"username", "avatar_url", "current_playback_time", "is_synced"}

\* A request of a user of U whose updates are {is_host: true}; h[p].action
\* keeps the key.
StatusHostFlag(p, U) ==
  \E r \in RoomIds, u \in U :
    /\ h[p].pc = "idle"
    /\ nreq < MaxRequests
    /\ nreq' = nreq + 1
    /\ h' = [h EXCEPT ![p] = [Idle EXCEPT !.pc = "status", !.op = "status",
                                          !.room_id = r, !.user_id = u,
                                          !.action = "is_host"]]
    /\ response' = NoResponse
    /\ UNCHANGED <<tables, now, sweep, calc, events>>

\* Verify user is in the room, then validate the updates: a key outside
\* allowedUpdates and a negative current_playback_time are refused.
StatusMember(p) ==
  /\ h[p].pc = "status"
  /\ IF <<h[p].room_id, h[p].user_id>> \in DOMAIN room_members
       THEN IF {h[p].action} \ ({"none"} \cup allowedUpdates) # {}
              THEN Respond(p, "error", "invalid_updates")
              ELSE IF /\ h[p].current_time # Undefined
                      /\ h[p].current_time[1] < 0
                     THEN Respond(p, "error", "invalid_time")
                     ELSE Goto(p, "status_update") /\ Silent
       ELSE Respond(p, "error", "not_in_room")
  /\ UNCHANGED <<tables, now, sweep>>

\* The row the handler's update asks for: current_playback_time together
\* with last_heartbeat, and is_synced.
StatusUpdateData(OLD, ct, flag, t) ==
  LET m1 == IF ct = Undefined
              THEN OLD
              ELSE [OLD EXCEPT !.current_playback_time = Round2(ct[1]),
                               !.last_heartbeat = t]
  IN IF flag = Undefined THEN m1 ELSE [m1 EXCEPT !.is_synced = flag[1]]

\* Update member, then the success response; .single() finds no row and
\* the handler throws when the member has gone meanwhile.
StatusUpdate(p) ==
  /\ h[p].pc = "status_update"
  /\ LET r == h[p].room_id
         u == h[p].user_id
     IN IF <<r, u>> \in DOMAIN room_members
          THEN \E t \in IF h[p].current_time = Undefined
                            THEN {now}
                            ELSE {x \in BeatTimes : x > now} :
                 /\ now' = t
                 /\ SetDB(UpdateMember(Cur, r, u,
                             StatusUpdateData(room_members[<<r, u>>],
                                              h[p].current_time,
                                              h[p].is_synced, t), t))
                 /\ Respond(p, "success", "none")
          ELSE /\ Respond(p, "error", "update_member_status_failed")
               /\ UNCHANGED <<tables, now>>
  /\ UNCHANGED sweep

\* Rooms, playback commands and heartbeats.
NextBeat ==
  \/ Heartbeat
  \/ \E p \in {"p1"} :
       \/ CreateRoomFrom(p, Creators)
       \/ CreateRoomInsertRoom(p)
       \/ CreateRoomInsertHost(p)
       \/ JoinFrom(p, Joiners)
       \/ JoinAccess(p)
       \/ JoinExisting(p)
       \/ JoinRoom(p)
       \/ JoinInsert(p)
       \/ JoinSync(p)
       \/ SyncFrom(p, Creators)
       \/ SyncRateLimit(p)
       \/ SyncRpc(p)
       \/ SyncRespond(p)
       \/ StatusFrom(p, Joiners)
       \/ StatusMember(p)
       \/ StatusUpdate(p)

SpecBeat == Init /\ [][NextBeat]_vars

----------------------------------------------------------------------------
(* Rate limiting                                                           *)

\* One handler at a time: rooms, joins and playback commands whose rate
\* limiting rpc may fail, and the passing of time.
NextLimit ==
  \/ Tick
  \/ \E p \in {"p1"} :
       \/ CreateRoomFrom(p, Creators)
       \/ CreateRoomInsertRoom(p)
       \/ CreateRoomInsertHost(p)
       \/ JoinFrom(p, Joiners)
       \/ JoinAccess(p)
       \/ JoinExisting(p)
       \/ JoinRoom(p)
       \/ JoinInsert(p)
       \/ JoinSync(p)
       \/ SyncFrom(p, Creators \cup Joiners)
       \/ SyncRateLimitFaulty(p)
       \/ SyncRpc(p)
       \/ SyncRespond(p)

SpecLimit == Init /\ [][NextLimit]_vars

----------------------------------------------------------------------------
(* Room access                                                             *)

\* The access_key of a request: none, '', and keys of 3, 6 and 7
\* characters, one of them a key generateAccessKey may return.
KeyInputs ==
  {Undefined, Some(""), Some("abc"), Some("abcdef"), Some("100000"),
   Some("abcdefg")}

\* The users that ask to join.
Guests == {"B", "C"}

\* One handler at a time: public and private rooms, and joins with and
\* without key whose access rpc may fail.
NextAccess ==
  \E p \in {"p1"} :
    \/ CreateRoomWith(p, Creators, BOOLEAN, KeyInputs)
    \/ CreateRoomInsertRoom(p)
    \/ CreateRoomInsertHost(p)
    \/ JoinWith(p, Guests, KeyInputs)
    \/ JoinAccessFaulty(p)
    \/ JoinExisting(p)
    \/ JoinRoom(p)
    \/ JoinInsert(p)
    \/ JoinSync(p)

SpecAccess == Init /\ [][NextAccess]_vars

----------------------------------------------------------------------------
(* Notifications                                                           *)

InitCast == InitEngine /\ calc = NoCalc /\ events = Recording

\* Two handlers at a time: a room, joins and leaves, with the log of
\* mutations and notifications kept.
NextCast ==
  \E p \in Procs :
    \/ CreateRoomFrom(p, Creators)
    \/ CreateRoomInsertRoom(p)
    \/ CreateRoomInsertHost(p)
    \/ JoinFrom(p, Guests)
    \/ JoinAccess(p)
    \/ JoinExisting(p)
    \/ JoinRoom(p)
    \/ JoinInsert(p)
    \/ JoinSync(p)
    \/ LeaveFrom(p, Users)
    \/ LeaveMember(p)
    \/ LeaveSync(p)
    \/ LeaveDelete(p)
    \/ LeaveRemaining(p)
    \/ LeaveMark(p)

SpecCast == InitCast /\ [][NextCast]_vars

----------------------------------------------------------------------------
(* Claims                                                                  *)

Nxt == DB(rooms', room_members', sync_states')

Quiescent == sweep.pc = "idle" /\ \A p \in Procs : h[p].pc = "idle"

\* Some member of the roster with the least joined_at holds the host flag
\* and is the room's host_user_id.
EarliestIsHost(D, r) ==
  /\ r \in DOMAIN D.rooms
  /\ \E n \in Roster(D, r) :
       /\ D.room_members[<<r, n>>].is_host
       /\ D.rooms[r].host_user_id = n
       /\ \A v \in Roster(D, r) :
            D.room_members[<<r, n>>].joined_at
              <= D.room_members[<<r, v>>].joined_at

HasRow(r, u, kind) ==
  \E s \in sync_states :
    s.room_id = r /\ s.user_id = u /\ s.sync_event_type = kind

\* Nobody has left room r through rooms-leave since it was created.
NoLeaveRow(r) == \A u \in Users : ~HasRow(r, u, "leave")

Age(k) == now - room_members[k].last_heartbeat

\* C1: whenever no handler and no sweep is in flight, every room with at
\* least one member has exactly one member with the host flag.
C1_ExactlyOneHost ==
  Quiescent =>
    \A r \in DOMAIN rooms :
      Roster(Cur, r) # {} => Cardinality(Hosts(Cur, r)) = 1

\* C2: a step of a play, pause or seek request whose requester does not hold
\* the host flag of the room leaves rooms, room_members and sync_states as
\* they are.
C2_NonHostCommandChangesNothing ==
  [][\A p \in Procs :
       (/\ h[p].op = "sync"
        /\ h'[p] # h[p]
        /\ h[p].user_id \notin Hosts(Cur, h[p].room_id))
       => UNCHANGED <<rooms, room_members, sync_states>>]_vars

C2_Witness ==
  /\ response.op = "sync"
  /\ response.status # "none"
  /\ response.error = "none"
  /\ response.user_id \in Roster(Cur, response.room_id)
  /\ response.user_id \notin Hosts(Cur, response.room_id)
  /\ Hosts(Cur, response.room_id) # {}

\* C3: the response to a play, pause or seek of a requester who did not hold
\* the host flag when the command ran is an error, never a success.
C3_NonHostAnsweredWithFailure ==
  (response.op = "sync" /\ ~response.authorized)
    => response.status = "error"

\* C4: when rooms-leave deletes the member holding the host flag and other
\* members remain, a remaining member with the earliest joined_at holds the
\* host flag and is the room's host_user_id.
C4_HostLeavePromotesEarliest ==
  [][\A p \in Procs :
       (/\ h[p].pc = "leave_delete"
        /\ h'[p].pc = "leave_remaining"
        /\ h[p].user_id \in Hosts(Cur, h[p].room_id)
        /\ Roster(Nxt, h[p].room_id) # {})
       => EarliestIsHost(Nxt, h[p].room_id)]_vars

C4_Witness ==
  \E p \in Procs :
    /\ h[p].pc = "leave_remaining"
    /\ h[p].is_host
    /\ h[p].room_id \in DOMAIN rooms
    /\ Cardinality(Roster(Cur, h[p].room_id)) >= 2
    /\ \E n \in Hosts(Cur, h[p].room_id) :
         /\ rooms[h[p].room_id].host_user_id = n
         /\ \A v \in Roster(Cur, h[p].room_id) \ {n} :
              room_members[<<h[p].room_id, n>>].joined_at
                < room_members[<<h[p].room_id, v>>].joined_at

\* C5: the member a join inserts holds the host flag exactly when the roster
\* was empty at the insert.
C5_JoinerHostIffRosterEmpty ==
  [][\A p \in Procs :
       (h[p].pc = "join_insert" /\ h'[p].pc = "join_sync")
       => (Nxt.room_members[<<h[p].room_id, h[p].user_id>>].is_host
             <=> Roster(Cur, h[p].room_id) = {})]_vars

C8_EvictedHostPromotesEarliest ==
  [][(CleanupRealtimeData \/ CleanupDelete) =>
       \A r \in RoomIds :
         (/\ \E u \in Hosts(Cur, r) : u \notin Roster(Nxt, r)
          /\ Roster(Nxt, r) # {})
         => EarliestIsHost(Nxt, r)]_vars

\* A member that joined holds the host flag though nobody left, and a
\* member that joined later is in the room.
C8_Witness ==
  \E r \in DOMAIN rooms, n \in Users :
    /\ n \in Hosts(Cur, r)
    /\ rooms[r].host_user_id = n
    /\ HasRow(r, n, "join")
    /\ NoLeaveRow(r)
    /\ \E v \in Roster(Cur, r) :
         room_members[<<r, n>>].joined_at < room_members[<<r, v>>].joined_at

\* cleanup_realtime_data deletes room r: it has no member and its
\* last_activity is more than an hour old.
Evictable(D, r, t) ==
  /\ r \in DOMAIN D.rooms
  /\ Roster(D, r) = {}
  /\ D.rooms[r].last_activity < t - 3600

\* C9: the delete of rooms-leave does not delete the room; when rooms-leave
\* has answered and the roster is empty, the room is evictable; it stays so
\* as long as nobody joins; cleanup_realtime_data deletes every evictable
\* room.
C9_LastLeaveThenSweep ==
  /\ [][\A p \in Procs :
          (/\ h[p].pc = "leave_delete"
           /\ h'[p].pc = "leave_remaining"
           /\ h[p].room_id \in DOMAIN rooms)
          => h[p].room_id \in DOMAIN rooms']_vars
  /\ []((/\ response.op = "leave"
         /\ response.status = "success"
         /\ response.room_id \in DOMAIN rooms
         /\ Roster(Cur, response.room_id) = {})
        => Evictable(Cur, response.room_id, now))
  /\ [][\A r \in RoomIds :
          (Evictable(Cur, r, now) /\ Roster(Nxt, r) = {})
          => (r \notin DOMAIN rooms' \/ Evictable(Nxt, r, now'))]_vars
  /\ [][CleanupRealtimeData =>
          \A r \in RoomIds :
            Evictable(Cur, r, now) => r \notin DOMAIN rooms']_vars

C9_Witness ==
  /\ response.op = "leave"
  /\ response.status = "success"
  /\ response.room_id \in DOMAIN rooms
  /\ Roster(Cur, response.room_id) = {}
  /\ NoLeaveRow(response.room_id) = FALSE

\* C6: change_playback_state and seek_to_time apply a command exactly when
\* its requester holds the host flag at that step, and a step that removes
\* the member holding the host flag while members remain leaves one of them
\* with the host flag.
C6_HostAtCommit ==
  /\ [][\A p \in Procs :
          (h[p].pc = "sync_rpc" /\ h'[p].pc = "sync_respond")
          => (h'[p].wrote <=> h[p].user_id \in Hosts(Cur, h[p].room_id))]_vars
  /\ [][\A r \in RoomIds :
          (/\ \E u \in Hosts(Cur, r) : u \notin Roster(Nxt, r)
           /\ Roster(Nxt, r) # {})
          => Hosts(Nxt, r) # {}]_vars

\* A member that joined, and so was promoted by a leave, has had a command
\* applied.
C6_Witness ==
  /\ response.op = "sync"
  /\ response.authorized
  /\ HasRow(response.room_id, response.user_id, "join")
  /\ ~NoLeaveRow(response.room_id)

\* C10: every sync classification computed for a host position and a member
\* position reports their absolute difference, and reports synced exactly
\* when that difference is at most 2 seconds.
C10_SyncedIffWithinTolerance ==
  calc.site # "none" =>
    /\ calc.diff = Abs(calc.host - calc.member)
    /\ calc.synced <=> Abs(calc.host - calc.member) <= 2000

\* The step just taken is a heartbeat of a member: track_user_presence, or
\* members-update-status with a position, has answered for a user with a
\* member row.
Heartbeaten ==
  /\ response.op \in {"heartbeat", "status"}
  /\ response.status = "success"
  /\ response.position # Undefined
  /\ <<response.room_id, response.user_id>> \in DOMAIN room_members

\* C11: after a heartbeat of a member that reports position p, the member's
\* stored position is p, its last_heartbeat is the time of the heartbeat and
\* its synced flag is (|room position - p| <= 2 seconds).
C11_HeartbeatStoresReport ==
  Heartbeaten =>
    LET m == room_members[<<response.room_id, response.user_id>>]
        pos == response.position[1]
        room_time == rooms[response.room_id].current_playback_time
    IN /\ m.current_playback_time = pos
       /\ m.last_heartbeat = now
       /\ m.is_synced <=> Abs(room_time - pos) <= 2000

\* C12: a heartbeat for a (room, user) pair that has no member row is answered
\* with not_in_room and leaves every table as it was: no member row is created
\* or modified and no sync_states row is recorded.
C12_NonMemberHeartbeatRejected ==
  [][(/\ response'.op \in {"heartbeat", "status"}
      /\ <<response'.room_id, response'.user_id>> \notin DOMAIN room_members)
       => (/\ response'.status = "error"
           /\ response'.error = "not_in_room"
           /\ UNCHANGED tables)]_vars

\* C13: a heartbeat that repeats the heartbeat just before it (same room,
\* same member, same reported position) leaves the member's stored position,
\* synced flag and host flag as the first one left them; of the member's row
\* only last_heartbeat changes, and no other member row changes.
C13_RepeatedHeartbeatIdempotent ==
  [][(/\ Heartbeaten
      /\ response'.op = response.op
      /\ response'.room_id = response.room_id
      /\ response'.user_id = response.user_id
      /\ response'.position = response.position
      /\ response'.status = "success")
       => LET k == <<response.room_id, response.user_id>>
          IN /\ DOMAIN room_members' = DOMAIN room_members
             /\ room_members' =
                  [room_members EXCEPT ![k].last_heartbeat = now']
             /\ now' > now
             /\ rooms' = rooms]_vars

\* The same heartbeat of a member has been recorded twice, and the second one
\* has just been applied to the member's row.
C13_Witness ==
  /\ Heartbeaten
  /\ response.op = "heartbeat"
  /\ room_members[<<response.room_id, response.user_id>>].last_heartbeat = now
  /\ \E s1, s2 \in sync_states :
       /\ s1.sync_event_type = "heartbeat" /\ s2.sync_event_type = "heartbeat"
       /\ s1.room_id = response.room_id /\ s2.room_id = response.room_id
       /\ s1.user_id = response.user_id /\ s2.user_id = response.user_id
       /\ s1.member_time = response.position[1]
       /\ s2.member_time = response.position[1]
       /\ room_members[<<response.room_id, response.user_id>>].joined_at
            < s1.created_at
       /\ s1.created_at < s2.created_at
       /\ s2.created_at = now

\* C14: the step that applies a play, pause or seek command of the host
\* leaves every other member of the room with is_synced false and the
\* host's own is_synced as it was.
C14_HostCommandUnsyncsOthers ==
  [][\A p \in Procs :
       (h[p].pc = "sync_rpc" /\ h'[p].pc = "sync_respond" /\ h'[p].wrote)
         => /\ DOMAIN room_members' = DOMAIN room_members
            /\ \A k \in DOMAIN room_members :
                 k[1] = h[p].room_id =>
                   IF k[2] = h[p].user_id
                     THEN room_members'[k].is_synced = room_members[k].is_synced
                     ELSE ~room_members'[k].is_synced]_vars

\* A command of the host has just been applied in a room with another
\* member, and the host is still marked synced.
C14_Witness ==
  \E p \in Procs :
    /\ h[p].pc = "sync_respond"
    /\ h[p].wrote
    /\ <<h[p].room_id, h[p].user_id>> \in DOMAIN room_members
    /\ room_members[<<h[p].room_id, h[p].user_id>>].is_host
    /\ room_members[<<h[p].room_id, h[p].user_id>>].is_synced
    /\ \E k \in DOMAIN room_members :
         /\ k[1] = h[p].room_id
         /\ k[2] # h[p].user_id
         /\ ~room_members[k].is_synced

\* C15: after a heartbeat of a member that is not the host, reporting a
\* position within 2 seconds of the room's position, the member is marked
\* synced, whether the room is playing or paused.
C15_HeartbeatWithinToleranceResyncs ==
  (/\ Heartbeaten
   /\ ~room_members[<<response.room_id, response.user_id>>].is_host
   /\ Abs(rooms[response.room_id].current_playback_time
            - response.position[1]) <= TOLERANCE)
    => room_members[<<response.room_id, response.user_id>>].is_synced

\* The playback commands of user u applied at instant t, as sync_states
\* records them: bulk_sync_update writes one row per member and command, so
\* in a room where u is alone each row is one of u's own commands.
CommandsAt(u, t) ==
  {s \in sync_states :
     /\ s.user_id = u
     /\ s.sync_event_type \in {"seek", "play_pause"}
     /\ s.created_at = t
     /\ Roster(Cur, s.room_id) = {u}}

\* C16: a playback command of a user who has already had two commands
\* applied within the same second is denied with rate_limited.
C16_ThirdCommandInSecondDenied ==
  [][\A p \in Procs :
       (/\ h[p].pc = "sync"
        /\ h'[p].pc # "sync"
        /\ Cardinality(CommandsAt(h[p].user_id, now)) >= 2)
         => (response'.status = "error" /\ response'.error = "rate_limited")]_vars

\* C17: when the rate limiting rpc fails, by an error in its result or by a
\* rejected promise, checkRateLimit returns true: the handler's step past
\* the check answers rate_limited only when check_rate_limit itself has
\* answered false, and otherwise the command goes on to be applied.
C17_RateLimitFailsOpen ==
  [][\A p \in Procs :
       (h[p].pc = "sync" /\ h'[p].pc # "sync")
         => LET u == h[p].user_id
                answer == check_rate_limit(Cur, u, "sync_control", 1, 2, now)
            IN /\ \A o \in RpcOutcomes \ {"ok"} :
                    checkRateLimit(o, Cur, u, "sync_control", 1, 2, now)
               /\ response'.error = "rate_limited" => ~answer
               /\ (h'[p].pc = "sync_rpc" /\ h'[p].rpc # "ok")
                    => response' = NoResponse /\ UNCHANGED tables]_vars

\* A command of the host has been applied although its rate limiting rpc
\* failed.
C17_Witness ==
  \E p \in Procs :
    /\ h[p].pc = "sync_respond"
    /\ h[p].rpc \in RpcOutcomes \ {"ok"}
    /\ h[p].wrote

\* C18: every step by which the handler of a client command changes a table
\* is a step of a request that has passed the rate limiter.
C18_EveryCommandRateLimited ==
  [][\A p \in Procs :
       (h'[p] # h[p] /\ tables' # tables)
         => (h[p].op = "sync" /\ h[p].rpc \in RpcOutcomes)]_vars

\* C19: every private room has an access key, and the key has exactly six
\* characters, whether generateAccessKey made it or the request supplied it.
C19_PrivateRoomHasSixCharKey ==
  \A r \in DOMAIN rooms :
    ~rooms[r].is_public =>
      /\ rooms[r].access_key # Undefined
      /\ Len(rooms[r].access_key[1]) = 6

\* Private rooms exist: one whose key was generated, or one whose key the
\* request supplied.
C19_Witness ==
  \E r \in DOMAIN rooms :
    /\ ~rooms[r].is_public
    /\ rooms[r].access_key \in {Some(g) : g \in GeneratedKeys} \cup KeyInputs
    /\ <<r, rooms[r].host_user_id>> \in DOMAIN room_members

\* The access_key of request p is the room's.
KeyMatches(p) ==
  /\ h[p].access_key # Undefined
  /\ h[p].access_key = rooms[h[p].room_id].access_key

CountIn(q, type, u) ==
  Cardinality({i \in DOMAIN q : q[i].type = type /\ q[i].user_id = u})

\* The member rows of user u that the joins and leaves committed so far have
\* left in the room.
Joined(u) ==
  CountIn(events.committed, "member_joined", u)
    - CountIn(events.committed, "member_left", u)

\* C21: the joins and leaves committed leave at most one member row per
\* user in the room, the row of the roster, also when two joins of the same
\* user run at once; and a step of a join request of a user who is already
\* in the roster changes no table and sends no notification, and the
\* request is answered with an error.
C21_OneEntryPerUser ==
  [][/\ \A u \in Guests :
          Joined(u)' = IF <<"r1", u>> \in DOMAIN room_members' THEN 1 ELSE 0
     /\ \A p \in Procs :
          (/\ h[p].op = "join"
           /\ ~h[p].wrote
           /\ h'[p] # h[p]
           /\ <<h[p].room_id, h[p].user_id>> \in DOMAIN room_members)
            => /\ UNCHANGED tables
               /\ events' = events
               /\ h'[p].pc = "idle" => response'.status = "error"]_vars

\* One of two joins of the same user that ran at once has just been refused
\* by unique_room_user; the user is in the roster.
C21_Witness ==
  /\ response.op = "join"
  /\ response.error = "join_room_failed"
  /\ <<response.room_id, response.user_id>> \in DOMAIN room_members

\* C22: a delete-room request for an existing room passes the host check
\* only when the requester is the member of the room that holds the host
\* flag; from anyone else it is answered not_host and changes no table.
C22_DeleteOnlyByHostMember ==
  [][\A p \in Procs :
       (/\ h[p].pc = "delete"
        /\ h'[p] # h[p]
        /\ h[p].room_id \in DOMAIN rooms
        /\ ~IsHostMember(Cur, h[p].room_id, h[p].user_id))
         => /\ response'.status = "error"
            /\ response'.error = "not_host"
            /\ UNCHANGED tables]_vars

\* C23: a create-room, join, leave or delete-room request that is answered
\* with an error has changed no table: h[p].wrote, set by the handler's
\* first insert, update or delete, is not set when the error is sent.
C23_ErrorMeansNoEffect ==
  [][\A p \in Procs :
       (/\ h[p].op \in {"create", "join", "leave", "delete"}
        /\ h[p].pc # "idle"
        /\ h'[p].pc = "idle"
        /\ response'.status = "error")
         => ~h[p].wrote]_vars

\* The ids of the mutations committed, and the place of one of them in the
\* order of commits.
CommittedIds == {events.committed[i].id : i \in DOMAIN events.committed}

Place(n) == CHOOSE i \in DOMAIN events.committed : events.committed[i].id = n

\* C24: the notifications of one room are emitted in the order in which the
\* mutations they announce were committed.
C24_NotificationsInCommitOrder ==
  \A i, j \in DOMAIN events.emitted :
    (/\ i < j
     /\ events.emitted[i].id \in CommittedIds
     /\ events.emitted[j].id \in CommittedIds)
      => Place(events.emitted[i].id) < Place(events.emitted[j].id)

\* C25: every member_left notification announces a departure that was
\* committed, and no departure is announced twice.
C25_OneLeaveNotificationPerDeparture ==
  \A i \in DOMAIN events.emitted :
    events.emitted[i].type = "member_left" =>
      /\ events.emitted[i].id \in CommittedIds
      /\ \A j \in DOMAIN events.emitted :
           events.emitted[j].id = events.emitted[i].id => j = i

\* The members a step turns into hosts.
Promoted ==
  {k \in DOMAIN room_members \cap DOMAIN room_members' :
     room_members'[k].is_host /\ ~room_members[k].is_host}

\* C26: a member that a delete of an eviction sweep promotes to host is not
\* among the members the same sweep goes on to evict.
C26_SweepKeepsPromoted ==
  [][CleanupDelete => Promoted \cap sweep.pending = {}]_vars

----------------------------------------------------------------------------
(* Playback state of a room                                                *)

\* One handler at a time: a room of A that B joins and leaves, playback
\* commands of A (host until evicted), heartbeats and status updates of B,
\* the passing of time and the eviction sweep.
NextFrame ==
  \/ Tick
  \/ CleanupRealtimeData
  \/ HeartbeatFrom(Joiners, {0})
  \/ \E p \in {"p1"} :
       \/ CreateRoomFrom(p, Creators)
       \/ CreateRoomInsertRoom(p)
       \/ CreateRoomInsertHost(p)
       \/ JoinFrom(p, Joiners)
       \/ JoinAccess(p)
       \/ JoinExisting(p)
       \/ JoinRoom(p)
       \/ JoinInsert(p)
       \/ JoinSync(p)
       \/ LeaveFrom(p, Joiners)
       \/ LeaveMember(p)
       \/ LeaveSync(p)
       \/ LeaveDelete(p)
       \/ LeaveRemaining(p)
       \/ LeaveMark(p)
       \/ SyncFrom(p, Creators)
       \/ SyncRateLimit(p)
       \/ SyncRpc(p)
       \/ SyncRespond(p)
       \/ StatusFrom(p, Joiners)
       \/ StatusMember(p)
       \/ StatusUpdate(p)

SpecFrame == Init /\ [][NextFrame]_vars

\* The playback state of a room row.
PlaybackState(room) ==
  <<room.current_playback_time, room.is_playing, room.playback_speed>>

\* C27: the playback position, the playing flag and the playback speed of a
\* room change only in the step of a play, pause or seek command that its
\* rpc applied, asked by a member holding the host flag; no other step
\* (heartbeat, join, leave, status update, sweep) changes them.
C27_PlaybackChangesByHostCommand ==
  [][\A r \in DOMAIN rooms \cap DOMAIN rooms' :
       PlaybackState(rooms'[r]) # PlaybackState(rooms[r]) =>
         \E p \in Procs :
           /\ h[p].pc = "sync_rpc" /\ h'[p].pc = "sync_respond"
           /\ h[p].room_id = r
           /\ h'[p].wrote
           /\ IsHostMember(Cur, r, h[p].user_id)]_vars

\* A heartbeat that reported another position than the room's and a playing
\* flag has just been handled, in a room that is playing at 5 s.
C27_Witness ==
  /\ response.op = "heartbeat"
  /\ "r1" \in DOMAIN rooms
  /\ rooms["r1"].is_playing
  /\ rooms["r1"].current_playback_time = 5000
  /\ response.position = Some(0)

----------------------------------------------------------------------------
(* Negative positions                                                      *)

\* Positions a client may send (milliseconds): -0.01 s, -0.004 s, which is
\* not a multiple of 0.01 s, and 5 s.
SignedTimes == {-10, -4, 5000}

\* Positions a heartbeat or a status update may report.
SignedBeats == {-10, 0}

\* One handler at a time: a room of A that B joins, playback commands of
\* both, heartbeats and status updates of B, with negative positions too.
NextSigned ==
  \/ HeartbeatFrom(Joiners, SignedBeats)
  \/ \E p \in {"p1"} :
       \/ CreateRoomFrom(p, Creators)
       \/ CreateRoomInsertRoom(p)
       \/ CreateRoomInsertHost(p)
       \/ JoinFrom(p, Joiners)
       \/ JoinAccess(p)
       \/ JoinExisting(p)
       \/ JoinRoom(p)
       \/ JoinInsert(p)
       \/ JoinSync(p)
       \/ SyncWith(p, BeatUsers, SignedTimes)
       \/ SyncRateLimit(p)
       \/ SyncRpc(p)
       \/ SyncRespond(p)
       \/ StatusWith(p, Joiners, SignedBeats)
       \/ StatusMember(p)
       \/ StatusUpdate(p)

SpecSigned == Init /\ [][NextSigned]_vars

\* C28: the position of every room and of every member is never negative,
\* and the rpc of a play, pause or seek that carries a negative position
\* leaves the tables as they were, whoever asks.
C28_NegativePositionRejected ==
  [][/\ \A r \in DOMAIN rooms' : rooms'[r].current_playback_time >= 0
     /\ \A k \in DOMAIN room_members' :
          room_members'[k].current_playback_time >= 0
     /\ \A p \in Procs :
          (/\ h[p].pc = "sync_rpc" /\ h'[p].pc = "sync_respond"
           /\ h[p].current_time # Undefined
           /\ h[p].current_time[1] < 0)
            => UNCHANGED tables]_vars

----------------------------------------------------------------------------
(* Inactive rooms                                                          *)

\* INTERVAL '24 hours', in seconds.
ROOM_TIMEOUT == 86400

\* Instants a day apart.
DayTimes == {31, 86401}

\* The loop of cleanup_inactive_rooms over the rooms selected: DELETE FROM
\* room_members WHERE room_id = r, one statement for each room.
RECURSIVE cleanup_rooms_loop(_, _, _)
cleanup_rooms_loop(D, rs, t) ==
  IF rs = {}
    THEN {D}
    ELSE LET r == CHOOSE x \in rs : TRUE
             keys == {k \in DOMAIN D.room_members : k[1] = r}
         IN UNION {cleanup_rooms_loop(D2, rs \ {r}, t)
                   : D2 \in DeleteMembers(D, keys, t)}

\* cleanup_inactive_rooms: the states it may leave.
cleanup_inactive_rooms(D, t) ==
  cleanup_rooms_loop(D, {r \in DOMAIN D.rooms :
                           D.rooms[r].last_activity < t - ROOM_TIMEOUT}, t)

CleanupInactiveRooms ==
  /\ \E D \in cleanup_inactive_rooms(Cur, now) : SetDB(D)
  /\ Silent
  /\ UNCHANGED <<now, nreq, h, sweep>>

\* One handler at a time: rooms of A, joins and leaves, the passing of a
\* day and the cleanup of inactive rooms.
NextDay ==
  \/ TickWithin(DayTimes)
  \/ CleanupInactiveRooms
  \/ \E p \in {"p1"} :
       \/ CreateRoomFrom(p, Creators)
       \/ CreateRoomInsertRoom(p)
       \/ CreateRoomInsertHost(p)
       \/ JoinFrom(p, Guests)
       \/ JoinAccess(p)
       \/ JoinExisting(p)
       \/ JoinRoom(p)
       \/ JoinInsert(p)
       \/ JoinSync(p)
       \/ LeaveFrom(p, Users)
       \/ LeaveMember(p)
       \/ LeaveSync(p)
       \/ LeaveDelete(p)
       \/ LeaveRemaining(p)
       \/ LeaveMark(p)

SpecDay == Init /\ [][NextDay]_vars

\* C29: cleanup_inactive_rooms deletes every room whose last activity is
\* more than 24 hours old, and the members of that room.
C29_InactiveRoomDeleted ==
  [][CleanupInactiveRooms =>
       \A r \in DOMAIN rooms :
         rooms[r].last_activity < now - ROOM_TIMEOUT =>
           /\ r \notin DOMAIN rooms'
           /\ \A k \in DOMAIN room_members' : k[1] # r]_vars

\* The order of the user ids (VARCHAR compared as text).
UserOrder == <<"A", "B", "C">>

Rank(u) == CHOOSE i \in DOMAIN UserOrder : UserOrder[i] = u

\* The members of r after the step that joined earliest.
EarliestLeft(r) ==
  {u \in Users :
     /\ <<r, u>> \in DOMAIN room_members'
     /\ \A v \in Users :
          <<r, v>> \in DOMAIN room_members' =>
            room_members'[<<r, u>>].joined_at
              <= room_members'[<<r, v>>].joined_at}

\* C30: when the row of a host is deleted and another member is promoted,
\* the promoted member is, among the remaining members with the earliest
\* join timestamp, the one with the lowest identifier.
C30_TieBreakLowestId ==
  [][\A k \in Promoted :
       (\E o \in DOMAIN room_members \ DOMAIN room_members' :
          o[1] = k[1] /\ room_members[o].is_host)
         => /\ k[2] \in EarliestLeft(k[1])
            /\ \A u \in EarliestLeft(k[1]) : Rank(k[2]) <= Rank(u)]_vars

\* The position a command asks for: the supplied one as the column stores
\* it, or the room's when none is supplied.
Requested(p) ==
  IF h[p].current_time = Undefined
    THEN rooms[h[p].room_id].current_playback_time
    ELSE Round2(h[p].current_time[1])

\* The rows for member m among the sync states the step has added.
AddedFor(m) == {s \in sync_states' \ sync_states : s.user_id = m}

\* C31: the step in which the rpc applies a play, pause or seek leaves the
\* room at the requested position (the current one when none is supplied),
\* playing after play, paused after pause and as it was after seek, with
\* last_activity at the instant of the command; sync_states then holds, for
\* every member of the roster, a row of this instant with that position as
\* host_time and the member's stored position as member_time, and the step
\* adds at most one row for a member and none for anybody else.
C31_CommandSetsRequestedState ==
  [][\A p \in Procs :
       (h[p].pc = "sync_rpc" /\ h'[p].pc = "sync_respond" /\ h'[p].wrote) =>
         LET r == h[p].room_id
             kind == IF h[p].action = "seek" THEN "seek" ELSE "play_pause"
         IN /\ rooms'[r].current_playback_time = Requested(p)
            /\ rooms'[r].is_playing =
                 (IF h[p].action = "seek" THEN rooms[r].is_playing
                                          ELSE h[p].action = "play")
            /\ rooms'[r].last_activity = now
            /\ \A m \in Roster(Cur, r) :
                 /\ \E s \in sync_states' :
                      /\ s.room_id = r /\ s.user_id = m
                      /\ s.sync_event_type = kind /\ s.created_at = now
                      /\ s.host_time = Requested(p)
                      /\ s.member_time =
                           room_members[<<r, m>>].current_playback_time
                 /\ Cardinality(AddedFor(m)) <= 1
            /\ \A s \in sync_states' \ sync_states :
                 /\ s.room_id = r /\ s.user_id \in Roster(Cur, r)
                 /\ s.sync_event_type = kind /\ s.created_at = now
                 /\ s.host_time = Requested(p)
                 /\ s.member_time =
                      room_members[<<r, s.user_id>>].current_playback_time]_vars

\* The host's seek to 5 s has just been applied, later than the room was
\* created, in a room with another member.
C31_Witness ==
  /\ h["p1"].pc = "sync_respond" /\ h["p1"].wrote
  /\ h["p1"].action = "seek"
  /\ now > 0
  /\ Roster(Cur, "r1") = {"A", "B"}
  /\ rooms["r1"].current_playback_time = 5000
  /\ rooms["r1"].last_activity = now

\* The system comments '... became the new host' that the step has added to
\* room r: the new hosts they name, in the order of their inserts.
NewHostComments(r) ==
  SubSeq(rooms'[r].host_comments, Len(rooms[r].host_comments) + 1,
         Len(rooms'[r].host_comments))

\* The members of room r that the step turns into hosts.
PromotedIn(r) == {k[2] : k \in {x \in Promoted : x[1] = r}}

Gone(r) == {k \in DOMAIN room_members \ DOMAIN room_members' : k[1] = r}

\* C33: a step that removes members of a room none of whom holds the host
\* flag (a leave or an eviction) leaves the holders of the host flag and
\* the room's host_user_id as they were.
C33_NonHostLeaveKeepsHost ==
  [][\A r \in DOMAIN rooms \cap DOMAIN rooms' :
       (Gone(r) # {} /\ \A k \in Gone(r) : ~room_members[k].is_host) =>
         /\ Hosts(Nxt, r) = Hosts(Cur, r)
         /\ rooms'[r].host_user_id = rooms[r].host_user_id]_vars

\* B, not the host, has left the room of host A, where C stays.
C33_Witness ==
  /\ response.op = "leave" /\ response.status = "success"
  /\ response.user_id = "B"
  /\ Roster(Cur, "r1") = {"A", "C"}
  /\ Hosts(Cur, "r1") = {"A"}
  /\ rooms["r1"].host_user_id = "A"

\* The fields of a member row that a profile update has no business with.
Presence(m) ==
  <<m.is_host, m.is_synced, m.current_playback_time, m.last_heartbeat>>

\* C34: the update of the members-update-status handler leaves the host
\* flag, the synced flag, the stored position and the last heartbeat of the
\* member's row as they were.
C34_ProfileUpdateKeepsPresence ==
  [][\A p \in Procs :
       (h[p].pc = "status_update" /\ h'[p].pc = "idle") =>
         \A k \in DOMAIN room_members \cap DOMAIN room_members' :
           Presence(room_members'[k]) = Presence(room_members[k])]_vars

----------------------------------------------------------------------------
(* Retention of sync states                                                *)

\* INTERVAL '24 hours' of cleanup_old_sync_states, in seconds.
SYNC_DAY_RETENTION == 86400

\* cleanup_old_sync_states.
cleanup_old_sync_states(D, t) ==
  [D EXCEPT !.sync_states =
     {s \in @ : ~(s.created_at < t - SYNC_DAY_RETENTION)}]

\* scheduled_cleanup_sync_states: the cleanup, then the log row of type
\* 'cleanup' for one room (LIMIT 1, any room; no room, no row).  A row that
\* a constraint refuses raises an error, which undoes the cleanup as well.
scheduled_cleanup_sync_states(D, t) ==
  LET D1 == cleanup_old_sync_states(D, t)
  IN IF DOMAIN D1.rooms = {}
       THEN {D1}
       ELSE {LET row == SyncRow(r, "system", 0, 0, 0, TRUE, "cleanup", t)
             IN IF CanInsertSync(D1, row) THEN InsertSync(D1, row) ELSE D
             : r \in DOMAIN D1.rooms}

ScheduledCleanupSyncStates ==
  /\ \E D \in scheduled_cleanup_sync_states(Cur, now) : SetDB(D)
  /\ Silent
  /\ UNCHANGED <<now, nreq, h, sweep>>

\* One handler at a time: a room of A that B joins and leaves, the passing
\* of a day and the routines that discard sync states.
NextRetain ==
  \/ TickWithin(DayTimes)
  \/ CleanupRealtimeData
  \/ ScheduledCleanupSyncStates
  \/ \E p \in {"p1"} :
       \/ CreateRoomFrom(p, Creators)
       \/ CreateRoomInsertRoom(p)
       \/ CreateRoomInsertHost(p)
       \/ JoinFrom(p, Joiners)
       \/ JoinAccess(p)
       \/ JoinExisting(p)
       \/ JoinRoom(p)
       \/ JoinInsert(p)
       \/ JoinSync(p)
       \/ LeaveFrom(p, Joiners)
       \/ LeaveMember(p)
       \/ LeaveSync(p)
       \/ LeaveDelete(p)
       \/ LeaveRemaining(p)
       \/ LeaveMark(p)

SpecRetain == Init /\ [][NextRetain]_vars

\* C35: after cleanup_realtime_data no sync state is older than 6 hours,
\* and after scheduled_cleanup_sync_states none is older than 24 hours.
C35_OldSamplesDiscarded ==
  [][/\ CleanupRealtimeData =>
          \A s \in sync_states' : ~(s.created_at < now - SYNC_RETENTION)
     /\ ScheduledCleanupSyncStates =>
          \A s \in sync_states' : ~(s.created_at < now - SYNC_DAY_RETENTION)]_vars

\* C36: no room has two members with the host flag, at any instant.
C36_AtMostOneHost ==
  \A r \in RoomIds : Cardinality(Hosts(Cur, r)) <= 1

----------------------------------------------------------------------------
(* Host flags                                                              *)

\* Instants an hour after the first request: a room without members is an
\* hour old at the first, a member of the first is half a minute old at
\* the second.
HostTimes == {EMPTY_ROOM_GRACE + 1, EMPTY_ROOM_GRACE + MEMBER_TIMEOUT + 2}

\* Two handlers at a time: rooms of A, joins, leaves, status updates that
\* ask for the host flag (none gets as far as the update), the passing of
\* time and the eviction sweeps.
NextHost ==
  \/ TickWithin(HostTimes)
  \/ Sweeps
  \/ \E p \in Procs :
       \/ CreateRoomFrom(p, Creators)
       \/ CreateRoomInsertRoom(p)
       \/ CreateRoomInsertHost(p)
       \/ JoinFrom(p, Guests)
       \/ JoinAccess(p)
       \/ JoinExisting(p)
       \/ JoinRoom(p)
       \/ JoinInsert(p)
       \/ JoinSync(p)
       \/ LeaveFrom(p, Users)
       \/ LeaveMember(p)
       \/ LeaveSync(p)
       \/ LeaveDelete(p)
       \/ LeaveRemaining(p)
       \/ LeaveMark(p)
       \/ StatusHostFlag(p, Guests)
       \/ StatusMember(p)

SpecHost == Init /\ [][NextHost]_vars

\* C37: in a room with members, host_user_id of the room names the member
\* who holds the host flag, and nobody else holds it.
C37_HostIdNamesFlagHolder ==
  \A r \in DOMAIN rooms :
    Roster(Cur, r) # {} => Hosts(Cur, r) = {rooms[r].host_user_id}

----------------------------------------------------------------------------
(* Heartbeats and inactive rooms                                           *)

\* Instants of heartbeats within a minute and a day later.
LateBeatTimes == {1, 31, 86401}

\* One handler at a time: a room of A that B joins, heartbeats of both over
\* a day, the passing of time, cleanup_realtime_data and
\* cleanup_inactive_rooms.
NextAlive ==
  \/ TickWithin(DayTimes)
  \/ HeartbeatWithin(BeatUsers, {0}, LateBeatTimes)
  \/ CleanupRealtimeData
  \/ CleanupInactiveRooms
  \/ \E p \in {"p1"} :
       \/ CreateRoomFrom(p, Creators)
       \/ CreateRoomInsertRoom(p)
       \/ CreateRoomInsertHost(p)
       \/ JoinFrom(p, Joiners)
       \/ JoinAccess(p)
       \/ JoinExisting(p)
       \/ JoinRoom(p)
       \/ JoinInsert(p)
       \/ JoinSync(p)

SpecAlive == Init /\ [][NextAlive]_vars

\* C38: a cleanup routine removes no member whose last heartbeat is less
\* than 30 seconds old.
C38_CleanupSparesFreshMembers ==
  [][(CleanupRealtimeData \/ CleanupInactiveRooms) =>
       \A k \in DOMAIN room_members \ DOMAIN room_members' :
         room_members[k].last_heartbeat < now - MEMBER_TIMEOUT]_vars

----------------------------------------------------------------------------
(* Heartbeats during a sweep                                               *)

\* Instants of heartbeats before and after the members of time 0 go stale.
RaceBeatTimes == {1, 32}

\* One handler at a time: a room of A that B joins, heartbeats of both, the
\* passing of time and the sweep cleanupInactiveMembers.
NextRace ==
  \/ Tick
  \/ HeartbeatWithin(BeatUsers, {0}, RaceBeatTimes)
  \/ CleanupSelect
  \/ CleanupDelete
  \/ \E p \in {"p1"} :
       \/ CreateRoomFrom(p, Creators)
       \/ CreateRoomInsertRoom(p)
       \/ CreateRoomInsertHost(p)
       \/ JoinFrom(p, Joiners)
       \/ JoinAccess(p)
       \/ JoinExisting(p)
       \/ JoinRoom(p)
       \/ JoinInsert(p)
       \/ JoinSync(p)

SpecRace == Init /\ [][NextRace]_vars

\* C39: a delete of cleanupInactiveMembers removes a member only if the
\* member's last heartbeat is older than 30 seconds at that moment.
C39_SweepDeletesOnlyStale ==
  [][CleanupDelete =>
       \A k \in DOMAIN room_members \ DOMAIN room_members' :
         room_members[k].last_heartbeat < now - MEMBER_TIMEOUT]_vars

\* C40: a room with a member does not bear the mark of an empty room, a
\* last_activity 25 hours or more back.
C40_OccupiedRoomNotMarked ==
  \A r \in DOMAIN rooms :
    Roster(Cur, r) # {} =>
      ~(rooms[r].last_activity <= now - EMPTY_ROOM_BACKDATE)

============================================================================
